---- MODULE Spec2Model ----
(***************************************************************************)
(* Leader election of raft_consensus: the role state machine               *)
(* (state_machine.rs), the persistent election record (default_storage.rs) *)
(* and the event loop of one node thread (raft_thread.rs), run by a        *)
(* cluster of servers that exchange messages over an unreliable network.   *)
(*                                                                         *)
(* One action of the model is one whole iteration of a node's event loop:  *)
(* wait for a message, handle Tick, handle the message, hand the produced  *)
(* messages to the transport, publish the state observation.               *)
(***************************************************************************)
EXTENDS Integers, Sequences, FiniteSets, TLC

\* ------------------------------------------------------------------------
\* Bounds of the model
\* ------------------------------------------------------------------------
\* number of servers of the cluster, ids 0..NumServers-1
NumServers == 2
\* the clock is not advanced beyond this reading
MaxTime == 4
\* number of storage syncs that may fail over a run
MaxIoFaults == 1
\* RaftConfig: election timeouts are drawn from min..max-1, in clock units
MinElectionTimeout == 1
MaxElectionTimeout == 3
\* RaftConfig: interval of the leader's heartbeat, in clock units
HeartbeatInterval == 1
\* the bounded runs of larger clusters: last clock reading, and number of
\* servers and of event-loop iterations of the two clusters
MaxTimeBounded == 2
OddCluster == 3
MaxIterationsOdd == 7
EvenCluster == 4
MaxIterationsEven == 4
\* the bounded runs of a partitioned cluster: number of servers and of
\* event-loop iterations
PartitionedCluster == 5
MaxIterationsPartitioned == 5
\* the runs that tell the draws of Uuid::new_v4 apart: number of values the
\* random source of the operating system has
OsEntropy == 2
MaxStoredTerm == 4
MaxSimTime == 2
MaxLatency == 1
MaxSimMessages == 2
MaxSimEvents == 2
MaxWakeUps == 1

VARIABLES
    now,                \* system_clock::now(), the clock shared by the nodes
    node,               \* server -> Node (the role and its volatile fields)
    running,            \* server -> the node's thread is in its event loop
    interval_until_next_timer_expires, \* server -> the wait armed for the next iteration
    time_before_waiting,\* server -> clock reading when the current wait began
    stores,             \* server -> [election: the record in memory,
                        \*            last_synced: the record of the last successful sync,
                        \*            disk: the record in the election file,
                        \*            synced: the records written by a successful sync]
    network,            \* messages handed to the transport; deliverable any number of times
    server_states,      \* server -> last published RaftStateEvent (InvariantChecker's map)
    io_faults,          \* storage faults still to be injected
    servers,            \* the server ids of the cluster (fixed over a run)
    config,             \* RaftConfig (fixed over a run)
    iterations,         \* event-loop iterations run so far (counted in bounded runs only)
    os_entropy,         \* the values the random source of the operating system may
                        \*   hand to Uuid::new_v4 (fixed over a run)
    connections,        \* <<from, to>> -> packet loss of the link: "lossy" (a message
                        \*   may get through) or "cut" (every message is dropped)
    sim,                \* the ClusterSim: the channels from the node threads
                        \*   (outbound_message_rx, transport_wake_up_rx), the
                        \*   event heap, the stored wake-up times, the messages
                        \*   delivered and dropped (cut_off: by a partition), the
                        \*   partitioning in force, the messages sent when it
                        \*   was last healed,
                        \*   the wake-up requests that came late, and the panic
                        \*   it ended with
    transport,          \* server -> state of the node's RaftTransportBridge: "up",
                        \*   "outbound_closed" (enqueue_* return TransportShutdown) or
                        \*   "down" (wait_for_next_incoming_message returns it too)
    last                \* the event-loop iteration just run: what it handled and produced

vars == <<now, node, running, interval_until_next_timer_expires, time_before_waiting,
          stores, network, server_states, io_faults, servers, config, connections, os_entropy, sim, iterations,
          transport, last>>

\* ------------------------------------------------------------------------
\* Data
\* ------------------------------------------------------------------------
\* Option<T>: None is the empty sequence, Some(x) a sequence of one element
None == <<>>
Some(x) == <<x>>

\* range of rng.gen_range(min..max)
Timeouts == config.min_election_timeout_ms .. (config.max_election_timeout_ms - 1)

\* other_servers as built for a process: every server id but its own
other_servers(server_id) == servers \ {server_id}

\* the elements of a set of server ids in ascending order
RECURSIVE SetToSeq(_)
SetToSeq(S) ==
    IF S = {} THEN <<>>
    ELSE LET m == CHOOSE x \in S : \A y \in S : x <= y
         IN <<m>> \o SetToSeq(S \ {m})

\* Uuid::new_v4(): the request_id of a request, a value no other request
\* carries, made of a draw from the random source of the operating system; a
\* request is named by the draw, its kind, the server that makes it, the server
\* it is made to and the clock reading at which it is made
new_v4(draw, kind, server_id, to) == <<draw, kind, server_id, to, now>>

\* Election record: voted_for is None or <<term, server>>
InitialElection == [current_term |-> 0, voted_for |-> None]

\* events and actions of the role state machine
Tick(t) == [type |-> "Tick", now |-> t]
IncomingRpc(m) == [type |-> "IncomingRpc", msg |-> m]
SetNextTimeout(d) == [action |-> "SetNextTimeout", duration |-> d]
OutgoingRpc(m) == [action |-> "OutgoingRpc", msg |-> m]

IsRequest(m) == m.mtype \in {"RequestVote", "AppendEntries"}

\* ------------------------------------------------------------------------
\* Persistent storage.  A storage value is the in-memory Election record,
\* the record in the file, and the records written by successful syncs.
\* ------------------------------------------------------------------------
current_term(storage) == storage.election.current_term

\* the stored vote, whatever its term
voted_for_in_any_term(storage) ==
    IF storage.election.voted_for # None
    THEN Some(storage.election.voted_for[2])
    ELSE None

voted_for_in_current_term(storage) ==
    IF storage.election.voted_for # None
       /\ storage.election.voted_for[1] = storage.election.current_term
    THEN Some(storage.election.voted_for[2])
    ELSE None

update_term(storage, term) ==
    [storage EXCEPT !.election.current_term = term]

\* a record_vote that stores nothing
record_no_vote(storage, voted_for) == storage

record_vote(storage, voted_for) ==
    [storage EXCEPT !.election.voted_for = <<current_term(storage), voted_for>>]

\* sync() succeeds, or (fault injection) fails.  A failure before the record
\* was serialized leaves the file as it was; a failure of the final flush
\* leaves the record in the BufWriter, which writes it when the storage is
\* dropped at thread exit.
sync(storage) ==
    {[ok |-> TRUE,
      storage |-> [storage EXCEPT !.disk = storage.election,
                                  !.synced = @ \cup {storage.election},
                                  !.last_synced = storage.election]]}
    \cup (IF io_faults > 0
          THEN {[ok |-> FALSE, storage |-> storage],
                [ok |-> FALSE, storage |-> [storage EXCEPT !.disk = storage.election]]}
          ELSE {})

\* a storage that forgets the election file: every start reads the initial record
open_election_file_as_new(file) ==
    InitialElection

\* DefaultPersistentStorage::new on an existing election file: the record read
\* is the record in the file
open_election_file(file) ==
    [current_term |-> file.current_term, voted_for |-> file.voted_for]

\* ------------------------------------------------------------------------
\* Role records
\* ------------------------------------------------------------------------
Follower(started, timeout, leader) ==
    [role |-> "Follower", last_election_timer_started |-> started,
     election_timeout |-> timeout, leader_id |-> leader,
     votes_received |-> {}, last_heartbeat_sent |-> 0]

Candidate(started, timeout, votes) ==
    [role |-> "Candidate", last_election_timer_started |-> started,
     election_timeout |-> timeout, leader_id |-> None,
     votes_received |-> votes, last_heartbeat_sent |-> 0]

Leader(heartbeat_sent) ==
    [role |-> "Leader", last_election_timer_started |-> 0,
     election_timeout |-> 0, leader_id |-> None,
     votes_received |-> {}, last_heartbeat_sent |-> heartbeat_sent]

\* transition_to: the From impls between the role structs
transition_to(state, new_role) ==
    CASE state.role = "Follower" /\ new_role = "Candidate" -> Candidate(now, 0, {})
      [] state.role = "Candidate" /\ new_role = "Leader" -> Leader(now)
      [] state.role = "Leader" /\ new_role = "Follower" -> Follower(now, 0, None)
      [] state.role = "Candidate" /\ new_role = "Follower" ->
            Follower(now, state.election_timeout, None)

\* a reset that draws a new timeout but keeps the old start of the timer
reset_election_timeout_only(state, election_timeout) ==
    [state EXCEPT !.election_timeout = election_timeout]

reset_election_timer(state, election_timeout) ==
    [state EXCEPT !.election_timeout = election_timeout,
                  !.last_election_timer_started = now]

\* results of a step: Ok((node, actions)), Err(storage error), or a panic
Ok(n, storage, actions) ==
    [status |-> "ok", node |-> n, storage |-> storage, actions |-> actions]
Err(n, storage) ==
    [status |-> "storage_error", node |-> n, storage |-> storage, actions |-> <<>>]
Panic(n, storage) ==
    [status |-> "panic", node |-> n, storage |-> storage, actions |-> <<>>]
\* the wait returned Err(TransportShutdown): the loop breaks after the Tick step
TransportShutdown(tick) ==
    [status |-> "transport_shutdown", node |-> tick.node, storage |-> tick.storage,
     actions |-> <<>>]

\* ------------------------------------------------------------------------
\* Replies built by every role
\* ------------------------------------------------------------------------
\* an acknowledgement that always reports success
ack_append_entries_accepting(server_id, storage, append_entries_req, success) ==
    <<OutgoingRpc([mtype |-> "AppendEntriesAck",
                   request_id |-> append_entries_req.request_id,
                   from |-> server_id, to |-> append_entries_req.from,
                   term |-> current_term(storage), success |-> TRUE])>>

\* an acknowledgement that always reports failure
ack_append_entries_refusing(server_id, storage, append_entries_req, success) ==
    <<OutgoingRpc([mtype |-> "AppendEntriesAck",
                   request_id |-> append_entries_req.request_id,
                   from |-> server_id, to |-> append_entries_req.from,
                   term |-> current_term(storage), success |-> FALSE])>>

ack_append_entries(server_id, storage, append_entries_req, success) ==
    <<OutgoingRpc([mtype |-> "AppendEntriesAck",
                   request_id |-> append_entries_req.request_id,
                   from |-> server_id, to |-> append_entries_req.from,
                   term |-> current_term(storage), success |-> success])>>

\* a reply that grants the vote instead of refusing it
vote_yes(server_id, storage, vote_req) ==
    <<OutgoingRpc([mtype |-> "Vote", request_id |-> vote_req.request_id,
                   from |-> server_id, to |-> vote_req.from,
                   term |-> current_term(storage), vote_granted |-> TRUE])>>

\* a refusal that carries a request_id of its own
vote_no_with_new_id(server_id, storage, vote_req) ==
    <<OutgoingRpc([mtype |-> "Vote",
                   request_id |-> new_v4(CHOOSE draw \in os_entropy : TRUE, "Vote",
                                         server_id, vote_req.from),
                   from |-> server_id, to |-> vote_req.from,
                   term |-> current_term(storage), vote_granted |-> FALSE])>>

vote_no(server_id, storage, vote_req) ==
    <<OutgoingRpc([mtype |-> "Vote", request_id |-> vote_req.request_id,
                   from |-> server_id, to |-> vote_req.from,
                   term |-> current_term(storage), vote_granted |-> FALSE])>>

\* ------------------------------------------------------------------------
\* Node::if_rpc_message_has_higher_term_become_follower
\* ------------------------------------------------------------------------
\* a node that follows any other term, also a lower one
should_become_follower_of_other_term(storage, event) ==
    event.type = "IncomingRpc" /\ event.msg.term # current_term(storage)

\* a node that never adopts the term of a message
never_become_follower(server_id, self, storage, event) ==
    {Ok(self, storage, <<>>)}

should_become_follower(storage, event) ==
    event.type = "IncomingRpc" /\ event.msg.term > current_term(storage)

if_rpc_message_has_higher_term_become_follower(server_id, self, storage, event) ==
    IF should_become_follower(storage, event)
    THEN LET follower_state ==
                 IF self.role = "Follower" THEN self
                 ELSE transition_to(self, "Follower")
         IN { IF sy.ok
              THEN Ok(reset_election_timer([follower_state EXCEPT !.leader_id = None],
                                           election_timeout),
                      sy.storage, <<SetNextTimeout(election_timeout)>>)
              ELSE Err(self, sy.storage)
              : sy \in sync(update_term(storage, event.msg.term)),
                election_timeout \in Timeouts }
    ELSE {Ok(self, storage, <<>>)}

\* ------------------------------------------------------------------------
\* Leader
\* ------------------------------------------------------------------------
heartbeats(server_id, storage, to_servers) ==
    { [i \in 1 .. Len(to_servers) |->
          OutgoingRpc([mtype |-> "AppendEntries",
                       request_id |-> new_v4(draws[i], "AppendEntries", server_id,
                                             to_servers[i]),
                       from |-> server_id,
                       to |-> to_servers[i], term |-> current_term(storage),
                       entries |-> <<>>])]
      : draws \in [1 .. Len(to_servers) -> os_entropy] }

send_leader_heartbeat_to_cluster(server_id, self, storage) ==
    { [node |-> [self EXCEPT !.last_heartbeat_sent = now],
       actions |-> requests \o <<SetNextTimeout(config.leader_heartbeat_interval)>>]
      : requests \in heartbeats(server_id, storage,
                                SetToSeq(other_servers(server_id))) }

\* a heartbeat that is due already when the interval has just passed
heartbeat_is_due_at_interval(self, tick_now) ==
    tick_now >= self.last_heartbeat_sent + config.leader_heartbeat_interval

heartbeat_is_due(self, tick_now) ==
    tick_now > self.last_heartbeat_sent + config.leader_heartbeat_interval

Leader_handle_event(server_id, self, event, storage) ==
    IF event.type = "Tick"
    THEN IF heartbeat_is_due(self, event.now)
         THEN {Ok(hb.node, storage, hb.actions)
               : hb \in send_leader_heartbeat_to_cluster(server_id, self, storage)}
         ELSE {Ok(self, storage, <<>>)}
    ELSE LET req == event.msg
         IN CASE req.mtype = "RequestVote" ->
                    {Ok(self, storage, vote_no(server_id, storage, req))}
              [] req.mtype = "AppendEntries" ->
                    IF req.term < current_term(storage)
                    THEN {Ok(self, storage,
                             ack_append_entries(server_id, storage, req, FALSE))}
                    ELSE {Panic(self, storage)}
              [] OTHER -> {Ok(self, storage, <<>>)}

\* ------------------------------------------------------------------------
\* Candidate
\* ------------------------------------------------------------------------
\* requests that announce the term after the one just begun
vote_requests_of_next_term(server_id, storage, to_servers) ==
    { [i \in 1 .. Len(to_servers) |->
          OutgoingRpc([mtype |-> "RequestVote",
                       request_id |-> new_v4(draws[i], "RequestVote", server_id,
                                             to_servers[i]),
                       from |-> server_id,
                       to |-> to_servers[i], term |-> current_term(storage) + 1])]
      : draws \in [1 .. Len(to_servers) -> os_entropy] }

vote_requests(server_id, storage, to_servers) ==
    { [i \in 1 .. Len(to_servers) |->
          OutgoingRpc([mtype |-> "RequestVote",
                       request_id |-> new_v4(draws[i], "RequestVote", server_id,
                                             to_servers[i]),
                       from |-> server_id,
                       to |-> to_servers[i], term |-> current_term(storage)])]
      : draws \in [1 .. Len(to_servers) -> os_entropy] }

start_new_election(server_id, self, storage) ==
    UNION { IF sy.ok
            THEN { Ok([reset_election_timer(self, election_timeout)
                          EXCEPT !.votes_received = {server_id}],
                      sy.storage,
                      <<SetNextTimeout(election_timeout)>> \o requests)
                   : requests \in vote_requests(server_id, sy.storage,
                                                SetToSeq(other_servers(server_id))) }
            ELSE {Err(self, sy.storage)}
            : sy \in sync(record_vote(update_term(storage, current_term(storage) + 1),
                                      server_id)),
              election_timeout \in Timeouts }

\* a timer that fires already at its deadline
election_timer_expired_at_deadline(self, tick_now) ==
    tick_now >= self.last_election_timer_started + self.election_timeout

election_timer_expired(self, tick_now) ==
    tick_now > self.last_election_timer_started + self.election_timeout

\* a quorum of half the other servers
qorum_of_peers(server_id) ==
    Cardinality(other_servers(server_id)) \div 2

\* a quorum of half the cluster, rounded down
qorum_of_half(server_id) ==
    LET n == Cardinality(other_servers(server_id)) + 1
    IN n \div 2

qorum(server_id) ==
    LET n == Cardinality(other_servers(server_id)) + 1
    IN (n + 1) \div 2

\* votes counted one by one: a vote of a voter already counted counts again
count_every_vote(self, vote) ==
    IF vote.from \in self.votes_received /\ self.votes_received # servers
    THEN [self EXCEPT !.votes_received =
             @ \cup {CHOOSE other \in servers \ self.votes_received : TRUE}]
    ELSE [self EXCEPT !.votes_received = @ \cup {vote.from}]

\* votes_received.insert(vote.from): votes_received is a set of voters
count_vote(self, vote) ==
    [self EXCEPT !.votes_received = @ \cup {vote.from}]

\* a granted vote counts whatever its term
vote_counts_when_granted(storage, vote) == vote.vote_granted

\* vote.term == storage.current_term() && vote.vote_granted
vote_counts(storage, vote) ==
    vote.term = current_term(storage) /\ vote.vote_granted

Candidate_handle_event(server_id, self, event, storage) ==
    IF event.type = "Tick"
    THEN IF election_timer_expired(self, event.now)
         THEN start_new_election(server_id, self, storage)
         ELSE {Ok(self, storage, <<>>)}
    ELSE LET req == event.msg
         IN CASE req.mtype = "RequestVote" ->
                    {Ok(self, storage, vote_no(server_id, storage, req))}
              [] req.mtype = "AppendEntries" ->
                    IF req.term < current_term(storage)
                    THEN {Ok(self, storage,
                             ack_append_entries(server_id, storage, req, FALSE))}
                    ELSE IF req.term = current_term(storage)
                    THEN { Ok(reset_election_timer(transition_to(self, "Follower"),
                                                   election_timeout),
                              storage,
                              ack_append_entries(server_id, storage, req, TRUE))
                           : election_timeout \in Timeouts }
                    ELSE {Panic(self, storage)}
              [] req.mtype = "Vote" ->
                    IF vote_counts(storage, req)
                    THEN LET counted == count_vote(self, req)
                         IN IF Cardinality(counted.votes_received) >= qorum(server_id)
                            THEN {Ok(hb.node, storage, hb.actions)
                                  : hb \in send_leader_heartbeat_to_cluster(
                                               server_id,
                                               transition_to(counted, "Leader"),
                                               storage)}
                            ELSE {Ok(counted, storage, <<>>)}
                    ELSE {Ok(self, storage, <<>>)}
              [] OTHER -> {Ok(self, storage, <<>>)}

\* ------------------------------------------------------------------------
\* Follower
\* ------------------------------------------------------------------------
vote_is_granted(storage, vote_req) ==
    LET candidate_has_same_or_newer_term == vote_req.term >= current_term(storage)
        have_we_voted_for_this_term == voted_for_in_current_term(storage) # None
        voted_for_same_candidate_already ==
            IF voted_for_in_current_term(storage) # None THEN TRUE ELSE FALSE
    IN candidate_has_same_or_newer_term
       /\ (~have_we_voted_for_this_term \/ voted_for_same_candidate_already)

vote_in_election(server_id, self, storage, vote_req) ==
    LET vote_granted == vote_is_granted(storage, vote_req)
        reply(st) == <<OutgoingRpc([mtype |-> "Vote",
                                    request_id |-> vote_req.request_id,
                                    from |-> server_id,
                                    to |-> vote_req.from,
                                    term |-> current_term(st),
                                    vote_granted |-> vote_granted])>>
        cleared == [self EXCEPT !.leader_id = None]
    IN IF vote_granted
       THEN { IF sy.ok THEN Ok(cleared, sy.storage, reply(sy.storage))
              ELSE Err(self, sy.storage)
              : sy \in sync(record_vote(storage, vote_req.from)) }
       ELSE {Ok(cleared, storage, reply(storage))}

\* a Follower that takes every AppendEntries for one of its Leader
is_never_stale(storage, req) == FALSE

\* req.term < storage.current_term(): the AppendEntries of a deposed Leader
is_stale(storage, req) == req.term < current_term(storage)

Follower_handle_event(server_id, self, event, storage) ==
    IF event.type = "Tick"
    THEN IF election_timer_expired(self, event.now)
         THEN start_new_election(server_id, transition_to(self, "Candidate"), storage)
         ELSE {Ok(self, storage, <<>>)}
    ELSE LET req == event.msg
         IN CASE req.mtype = "RequestVote" ->
                    IF req.term < current_term(storage)
                    THEN {Ok(self, storage, vote_no(server_id, storage, req))}
                    ELSE vote_in_election(server_id, self, storage, req)
              [] req.mtype = "AppendEntries" ->
                    IF is_stale(storage, req)
                    THEN {Ok(self, storage,
                             ack_append_entries(server_id, storage, req, FALSE))}
                    ELSE { Ok(reset_election_timer(
                                  [self EXCEPT !.leader_id = Some(req.from)],
                                  election_timeout),
                              storage,
                              ack_append_entries(server_id, storage, req, TRUE)
                              \o <<SetNextTimeout(election_timeout)>>)
                           : election_timeout \in Timeouts }
              [] OTHER -> {Ok(self, storage, <<>>)}

\* ------------------------------------------------------------------------
\* Node::next: the step of the role state machine, as the set of its
\* possible results (one per rng draw and per outcome of the syncs)
\* ------------------------------------------------------------------------
handle_event(server_id, self, event, storage) ==
    CASE self.role = "Leader" -> Leader_handle_event(server_id, self, event, storage)
      [] self.role = "Follower" -> Follower_handle_event(server_id, self, event, storage)
      [] self.role = "Candidate" -> Candidate_handle_event(server_id, self, event, storage)

next(server_id, self, event, storage) ==
    UNION { IF r.status = "ok"
            THEN { IF h.status = "ok"
                   THEN Ok(h.node, h.storage, h.actions \o r.actions)
                   ELSE h
                   : h \in handle_event(server_id, r.node, event, r.storage) }
            ELSE {r}
            : r \in if_rpc_message_has_higher_term_become_follower(
                        server_id, self, storage, event) }

\* ------------------------------------------------------------------------
\* The event loop of start_raft_in_new_thread
\* ------------------------------------------------------------------------
\* a thread that starts in the middle of an election
new_node_as_candidate(election_timeout) == Candidate(now, election_timeout, {})

\* NodeState::<Follower>::new and the first wait
new_node(election_timeout) == Follower(now, election_timeout, None)

\* what the transport's wait can return: a message addressed to the node,
\* or None once max_wait has elapsed
wait_for_next_incoming_message(server_id) ==
    IF transport[server_id] = "down" THEN {None}
    ELSE {Some(m) : m \in {x \in network : x.to = server_id}}
         \cup (IF now - time_before_waiting[server_id]
                    >= interval_until_next_timer_expires[server_id]
               THEN {None} ELSE {})

\* checked_sub(elapsed).unwrap_or(0)
remaining_interval(interval, elapsed) ==
    IF interval >= elapsed THEN interval - elapsed ELSE 0

\* the drain of the actions: the last SetNextTimeout wins
RECURSIVE drained_interval(_, _)
drained_interval(actions, interval) ==
    IF actions = <<>> THEN interval
    ELSE drained_interval(Tail(actions),
                          IF Head(actions).action = "SetNextTimeout"
                          THEN Head(actions).duration
                          ELSE interval)

\* the actions the drain gets through: all of them, or, when the transport
\* refuses the messages, those before the first OutgoingRpc (its enqueue
\* returns TransportShutdown and the break leaves the for loop)
RECURSIVE drained(_, _)
drained(actions, outbound_open) ==
    IF actions = <<>> \/ outbound_open THEN actions
    ELSE IF Head(actions).action = "OutgoingRpc" THEN <<>>
    ELSE <<Head(actions)>> \o drained(Tail(actions), outbound_open)

\* the messages the drain hands to the transport
enqueued(actions) ==
    {actions[i].msg : i \in {j \in 1 .. Len(actions) : actions[j].action = "OutgoingRpc"}}

\* the RaftStateEvent pushed at the end of an iteration
RaftStateEvent(server_id, new_state, st) ==
    [server_id |-> server_id,
     current_state |-> new_state.role,
     current_term |-> current_term(st),
     voted_for |-> voted_for_in_current_term(st),
     leader_for_term |-> CASE new_state.role = "Leader" -> Some(server_id)
                           [] new_state.role = "Follower" -> new_state.leader_id
                           [] OTHER -> None]

NoIteration ==
    [server |-> None, status |-> "none", message |-> None,
     before |-> new_node(0), election_before |-> InitialElection,
     after_tick |-> new_node(0), election_after_tick |-> InitialElection,
     tick_actions |-> <<>>, message_actions |-> <<>>]

\* a loop that abandons the iteration of a failed step and goes on waiting
\* (continue in the place of break)
continue_after_error(server_id, maybe_next_message, tick, result) ==
    /\ stores' = [stores EXCEPT ![server_id] = result.storage]
    /\ io_faults' = IF result.status = "storage_error" THEN io_faults - 1 ELSE io_faults
    /\ last' = [server |-> Some(server_id), status |-> result.status,
                message |-> maybe_next_message,
                before |-> node[server_id],
                election_before |-> stores[server_id].election,
                after_tick |-> tick.node, election_after_tick |-> tick.storage.election,
                tick_actions |-> tick.actions, message_actions |-> <<>>]
    /\ UNCHANGED <<now, node, running, interval_until_next_timer_expires,
                   time_before_waiting, network, server_states, servers, config, connections, os_entropy, sim,
                   transport>>

\* the thread leaves the loop (storage error) or dies (panic): the storage is
\* dropped, nothing is sent and nothing is published
thread_exit(server_id, maybe_next_message, tick, result) ==
    /\ running' = [running EXCEPT ![server_id] = FALSE]
    /\ node' = [node EXCEPT ![server_id] = new_node(0)]
    /\ stores' = [stores EXCEPT ![server_id] =
                      [result.storage EXCEPT !.election = result.storage.disk]]
    /\ interval_until_next_timer_expires' =
           [interval_until_next_timer_expires EXCEPT ![server_id] = 0]
    /\ time_before_waiting' = [time_before_waiting EXCEPT ![server_id] = 0]
    /\ io_faults' = IF result.status = "storage_error" THEN io_faults - 1 ELSE io_faults
    /\ last' = [server |-> Some(server_id), status |-> result.status,
                message |-> maybe_next_message,
                before |-> node[server_id],
                election_before |-> stores[server_id].election,
                after_tick |-> tick.node, election_after_tick |-> tick.storage.election,
                tick_actions |-> tick.actions, message_actions |-> <<>>]
    /\ UNCHANGED <<now, network, server_states, servers, config, connections, os_entropy, sim, transport>>

\* the rest of an iteration whose steps both returned Ok
\* SimNetwork::get_all_queued_outbound_messages: of the messages the nodes
\* enqueued, the network takes those whose link does not drop them for certain
transmitted(messages) ==
    {m \in messages : connections[<<m.from, m.to>>] # "cut"}

end_of_iteration(server_id, maybe_next_message, tick, result) ==
    LET actions == drained(tick.actions \o result.actions,
                           transport[server_id] = "up")
        elapsed == now - time_before_waiting[server_id]
    IN /\ node' = [node EXCEPT ![server_id] = result.node]
       /\ stores' = [stores EXCEPT ![server_id] = result.storage]
       /\ interval_until_next_timer_expires' =
              [interval_until_next_timer_expires EXCEPT ![server_id] =
                  drained_interval(actions,
                      remaining_interval(interval_until_next_timer_expires[server_id],
                                         elapsed))]
       /\ time_before_waiting' = [time_before_waiting EXCEPT ![server_id] = now]
       /\ network' = network \cup transmitted(enqueued(actions))
       /\ server_states' = [server_states EXCEPT ![server_id] =
              Some(RaftStateEvent(server_id, result.node, result.storage))]
       /\ last' = [server |-> Some(server_id), status |-> "ok",
                   message |-> maybe_next_message,
                   before |-> node[server_id],
                   election_before |-> stores[server_id].election,
                   after_tick |-> tick.node,
                   election_after_tick |-> tick.storage.election,
                   tick_actions |-> tick.actions, message_actions |-> result.actions]
       /\ UNCHANGED <<now, running, io_faults, servers, config, connections, os_entropy, sim, transport>>

\* an iteration that handles the message of its wait before the Tick
loop_iteration_message_first(server_id) ==
    /\ running[server_id]
    /\ \E maybe_next_message \in wait_for_next_incoming_message(server_id) :
       \E result \in
           (IF maybe_next_message = None
            THEN {Ok(node[server_id], stores[server_id], <<>>)}
            ELSE next(server_id, node[server_id],
                      IncomingRpc(maybe_next_message[1]), stores[server_id])) :
          IF result.status # "ok"
          THEN thread_exit(server_id, maybe_next_message, result, result)
          ELSE IF transport[server_id] = "down"
          THEN thread_exit(server_id, maybe_next_message, result,
                           TransportShutdown(result))
          ELSE \E tick \in next(server_id, result.node, Tick(now), result.storage) :
                  IF tick.status # "ok"
                  THEN thread_exit(server_id, maybe_next_message, result, tick)
                  ELSE end_of_iteration(server_id, maybe_next_message, tick,
                                        [tick EXCEPT !.actions = result.actions])

\* one iteration of the loop: wait, Tick, IncomingRpc, drain, publish
loop_iteration(server_id) ==
    /\ running[server_id]
    /\ \E maybe_next_message \in wait_for_next_incoming_message(server_id) :
       \E tick \in next(server_id, node[server_id], Tick(now), stores[server_id]) :
          IF tick.status # "ok"
          THEN thread_exit(server_id, maybe_next_message, tick, tick)
          ELSE IF transport[server_id] = "down"
          THEN thread_exit(server_id, maybe_next_message, tick, TransportShutdown(tick))
          ELSE \E result \in
                   (IF maybe_next_message = None
                    THEN {Ok(tick.node, tick.storage, <<>>)}
                    ELSE next(server_id, tick.node,
                              IncomingRpc(maybe_next_message[1]), tick.storage)) :
                  IF result.status # "ok"
                  THEN thread_exit(server_id, maybe_next_message, tick, result)
                  ELSE end_of_iteration(server_id, maybe_next_message, tick, result)

Iteration(server_id) ==
    /\ loop_iteration(server_id)
    /\ UNCHANGED iterations

\* the same, in a run of at most max_iterations iterations
BoundedIteration(server_id, max_iterations) ==
    /\ iterations < max_iterations
    /\ loop_iteration(server_id)
    /\ iterations' = iterations + 1

\* SimRaftProcess::restart_if_needed: a finished thread is started again on
\* the same storage path
Restart(server_id) ==
    /\ ~running[server_id]
    /\ \E election_timeout \in Timeouts :
          /\ node' = [node EXCEPT ![server_id] = new_node(election_timeout)]
          /\ interval_until_next_timer_expires' =
                 [interval_until_next_timer_expires EXCEPT ![server_id] = election_timeout]
    /\ running' = [running EXCEPT ![server_id] = TRUE]
    /\ time_before_waiting' = [time_before_waiting EXCEPT ![server_id] = now]
    /\ stores' = [stores EXCEPT ![server_id].election =
                      open_election_file(stores[server_id].disk)]
    /\ transport' = [transport EXCEPT ![server_id] = "up"]
    /\ last' = NoIteration
    /\ UNCHANGED <<now, network, server_states, io_faults, servers, config, connections, os_entropy, sim, iterations>>

\* the clock moves on
AdvanceClockUpTo(max_time) ==
    /\ now < max_time
    /\ now' = now + 1
    /\ last' = NoIteration
    /\ UNCHANGED <<node, running, interval_until_next_timer_expires, time_before_waiting,
                   stores, network, server_states, io_faults, servers, config, connections, os_entropy, sim, iterations,
                   transport>>

\* the other end of a node's transport goes away: first the receiver of its
\* outgoing messages, then the rest, or all at once
ShutdownTransport(server_id) ==
    /\ transport[server_id] # "down"
    /\ \E state \in {"outbound_closed", "down"} :
          /\ state # transport[server_id]
          /\ transport' = [transport EXCEPT ![server_id] = state]
    /\ last' = NoIteration
    /\ UNCHANGED <<now, node, running, interval_until_next_timer_expires,
                   time_before_waiting, stores, network, server_states, io_faults,
                   servers, config, connections, os_entropy, sim, iterations>>

AdvanceClock == AdvanceClockUpTo(MaxTime)

BoundedAdvanceClock == AdvanceClockUpTo(MaxTimeBounded)

\* SimNetwork::with_defaults: a link between every two servers, each with the
\* same packet loss probability below one
with_defaults(num_servers) ==
    [c \in {<<from, to>> \in (0 .. (num_servers - 1)) \X (0 .. (num_servers - 1)) :
                from # to} |-> "lossy"]

\* SimNetwork::partition_network: packet loss 1.0 on every link between servers
\* of different partitions
partition_network(links, partitions) ==
    [c \in DOMAIN links |->
        LET from_partition == CHOOSE partition \in partitions : c[1] \in partition
        IN IF c[2] \notin from_partition THEN "cut" ELSE links[c]]

\* ClusterSim::new: nothing sent, scheduled, delivered or dropped yet
ClusterSim ==
    [outbound_message_rx |-> {}, transport_wake_up_rx |-> {},
     events_to_process |-> {}, transport_wakeup_requests |-> {},
     delivered |-> {}, dropped |-> {}, sent |-> 0, injected |-> 0,
     partitions |-> {}, cut_off |-> {}, healed_at |-> 0, late |-> FALSE,
     panic |-> None]

\* the threads of a cluster of num_servers servers just started on empty
\* storage directories, with the given config and number of faults to inject,
\* on a network with the given links and with the given values of the random
\* source of the operating system
InitProcesses(num_servers, raft_config, faults, links, entropy) ==
    /\ os_entropy = entropy
    /\ sim = ClusterSim
    /\ connections = links
    /\ now = 0
    /\ servers = 0 .. (num_servers - 1)
    /\ config = raft_config
    /\ \E first_tick_timer \in
            [servers -> raft_config.min_election_timeout_ms ..
                        (raft_config.max_election_timeout_ms - 1)] :
          /\ node = [s \in servers |-> Follower(0, first_tick_timer[s], None)]
          /\ interval_until_next_timer_expires = first_tick_timer
    /\ running = [s \in servers |-> TRUE]
    /\ time_before_waiting = [s \in servers |-> 0]
    /\ stores = [s \in servers |->
                    [election |-> InitialElection, disk |-> InitialElection,
                     synced |-> {InitialElection},
                     last_synced |-> InitialElection]]
    /\ network = {}
    /\ server_states = [s \in servers |-> None]
    /\ io_faults = faults
    /\ iterations = 0
    /\ transport = [s \in servers |-> "up"]
    /\ last = NoIteration

\* the same, in runs that do not tell the draws of Uuid::new_v4 apart
InitNetwork(num_servers, raft_config, faults, links) ==
    InitProcesses(num_servers, raft_config, faults, links, {0})

\* the same, on a network without partitions
InitCluster(num_servers, raft_config, faults) ==
    InitNetwork(num_servers, raft_config, faults, with_defaults(num_servers))

RaftConfig(heartbeat, min, max) ==
    [leader_heartbeat_interval |-> heartbeat,
     min_election_timeout_ms |-> min, max_election_timeout_ms |-> max]

Init ==
    InitCluster(NumServers,
                RaftConfig(HeartbeatInterval, MinElectionTimeout, MaxElectionTimeout),
                MaxIoFaults)

Next ==
    \/ AdvanceClock
    \/ \E s \in servers : Iteration(s)
    \/ \E s \in servers : Restart(s)

Spec == Init /\ [][Next]_vars

\* Runs that tell the draws of Uuid::new_v4 apart
InitReplay ==
    InitProcesses(NumServers,
                  RaftConfig(HeartbeatInterval, MinElectionTimeout, MaxElectionTimeout),
                  MaxIoFaults, with_defaults(NumServers), 0 .. (OsEntropy - 1))

NextReplay ==
    \/ BoundedAdvanceClock
    \/ \E s \in servers : Iteration(s)
    \/ \E s \in servers : Restart(s)

SpecReplay == InitReplay /\ [][NextReplay]_vars

\* Runs in which the transports of the nodes may shut down
NextShutdown ==
    \/ BoundedAdvanceClock
    \/ \E s \in servers : Iteration(s)
    \/ \E s \in servers : Restart(s)
    \/ \E s \in servers : ShutdownTransport(s)

SpecShutdown == Init /\ [][NextShutdown]_vars

\* Runs of a process whose cluster has no other server (other_servers = {})
InitAlone ==
    InitCluster(1,
                RaftConfig(HeartbeatInterval, MinElectionTimeout, MaxElectionTimeout),
                MaxIoFaults)

SpecAlone == InitAlone /\ [][Next]_vars

\* Bounded runs of a cluster of five servers partitioned from time 0 into
\* {0, 1, 3} and {2, 4}, without storage faults
QuorumPartitions == {{0, 1, 3}, {2, 4}}

InitQuorumPartition ==
    InitNetwork(PartitionedCluster,
                RaftConfig(HeartbeatInterval, MinElectionTimeout, MaxElectionTimeout),
                0,
                partition_network(with_defaults(PartitionedCluster), QuorumPartitions))

IterationPartitioned(server_id) == BoundedIteration(server_id, MaxIterationsPartitioned)

NextPartitioned ==
    \/ BoundedAdvanceClock
    \/ \E s \in servers : IterationPartitioned(s)

SpecQuorumPartition == InitQuorumPartition /\ [][NextPartitioned]_vars

\* the same, partitioned from time 0 into {0, 1}, {2, 3} and {4}
NoQuorumPartitions == {{0, 1}, {2, 3}, {4}}

InitNoQuorumPartition ==
    InitNetwork(PartitionedCluster,
                RaftConfig(HeartbeatInterval, MinElectionTimeout, MaxElectionTimeout),
                0,
                partition_network(with_defaults(PartitionedCluster), NoQuorumPartitions))

SpecNoQuorumPartition == InitNoQuorumPartition /\ [][NextPartitioned]_vars

\* Bounded runs of a cluster of three servers, without storage faults
InitOdd ==
    InitCluster(OddCluster,
                RaftConfig(HeartbeatInterval, MinElectionTimeout, MaxElectionTimeout),
                0)

IterationOdd(server_id) == BoundedIteration(server_id, MaxIterationsOdd)

NextOdd ==
    \/ BoundedAdvanceClock
    \/ \E s \in servers : IterationOdd(s)

SpecOdd == InitOdd /\ [][NextOdd]_vars

\* Bounded runs of a cluster of four servers, without storage faults
InitEven ==
    InitCluster(EvenCluster,
                RaftConfig(HeartbeatInterval, MinElectionTimeout, MaxElectionTimeout),
                0)

IterationEven(server_id) == BoundedIteration(server_id, MaxIterationsEven)

NextEven ==
    \/ BoundedAdvanceClock
    \/ \E s \in servers : IterationEven(s)

SpecEven == InitEven /\ [][NextEven]_vars

\* ------------------------------------------------------------------------
\* Vocabulary of the properties
\* ------------------------------------------------------------------------
\* the vote an Election record holds for its own current term
VoteIn(election) == voted_for_in_current_term([election |-> election])

\* the last iteration ran to its end on server s and handled message m
Handled(s, m) ==
    /\ last.status = "ok"
    /\ last.server = Some(s)
    /\ last.message = Some(m)

\* the messages the last iteration produced while handling its message
Replies == enqueued(last.message_actions)

\* the servers a node believes to lead its current term
BelievedLeaders(s) ==
    CASE node[s].role = "Leader" -> {s}
      [] node[s].role = "Follower" ->
            {node[s].leader_id[i] : i \in 1 .. Len(node[s].leader_id)}
      [] OTHER -> {}

\* ------------------------------------------------------------------------
\* Properties
\* ------------------------------------------------------------------------

\* C1. Election Safety: in every reachable state, for every term t at most
\* one node is in the Leader role with current_term = t.
ElectionSafety ==
    \A a, b \in servers :
        (/\ running[a] /\ running[b]
         /\ node[a].role = "Leader" /\ node[b].role = "Leader"
         /\ stores[a].election.current_term = stores[b].election.current_term)
        => a = b

\* C2. For every node and term, at most one voted_for value is ever synced:
\* two synced records of a node that hold a vote of the same term hold the
\* same vote.
OneVotePerTerm ==
    \A s \in servers : \A e1, e2 \in stores[s].synced :
        (/\ e1.voted_for # None /\ e2.voted_for # None
         /\ e1.voted_for[1] = e2.voted_for[1])
        => e1.voted_for[2] = e2.voted_for[2]

\* C3. A Follower that handles a RequestVote of its current term grants the
\* vote iff it holds no vote for the term or holds one for the requester; a
\* Follower that voted for another candidate replies vote_granted = FALSE and
\* keeps its recorded vote.
FollowerGrantsOnlyFreeOrSameVote ==
    \A s \in servers : \A m \in network :
        (/\ Handled(s, m)
         /\ m.mtype = "RequestVote"
         /\ last.after_tick.role = "Follower"
         /\ m.term = last.election_after_tick.current_term)
        => \E reply \in Replies :
              /\ reply.mtype = "Vote"
              /\ reply.vote_granted <=>
                    VoteIn(last.election_after_tick) \in {None, Some(m.from)}
              /\ VoteIn(last.election_after_tick) \notin {None, Some(m.from)}
                    => stores[s].election.voted_for =
                           last.election_after_tick.voted_for

\* C4. A Candidate becomes Leader only with the votes of a strict majority of
\* the cluster: more than half of |other_servers| + 1, for odd and even sizes.
LeaderHasStrictMajority ==
    \A s \in servers : \A m \in network :
        (/\ Handled(s, m)
         /\ last.after_tick.role = "Candidate"
         /\ node[s].role = "Leader")
        => 2 * Cardinality(last.after_tick.votes_received \cup {m.from})
              > Cardinality(other_servers(s)) + 1

\* C5. Leader agreement: for every term, the servers that the nodes of that
\* term believe to be the leader are at most one.
LeaderAgreement ==
    \A a, b \in servers :
        (/\ running[a] /\ running[b]
         /\ stores[a].election.current_term = stores[b].election.current_term)
        => \A x \in BelievedLeaders(a) : \A y \in BelievedLeaders(b) : x = y

\* C6. The current_term a node reports in successive published state
\* observations never decreases, also over a storage failure followed by a
\* restart from the persisted record.
PublishedTermNeverDecreases ==
    [][\A s \in servers :
          (server_states[s] # None /\ server_states'[s] # None)
          => server_states'[s][1].current_term >= server_states[s][1].current_term]_vars

\* a node that had synced a term, and then restarted from a record that a
\* failed sync left in the file, has published an observation again
PublishedAfterFailedSyncAndRestart ==
    \E s \in servers :
        /\ last.server = Some(s)
        /\ last.status = "ok"
        /\ stores[s].disk \notin stores[s].synced
        /\ \E e \in stores[s].synced : e.current_term > 0
        /\ server_states[s] # None
        /\ server_states[s][1].current_term > 0

\* the records of a node's storage: in memory, in the file, and synced
Records(s) == {stores[s].election, stores[s].disk} \cup stores[s].synced

\* C7. In every state of the persistent election record, a recorded vote
\* Some((t, s)) has t <= current_term.
VoteTermAtMostCurrentTerm ==
    \A s \in servers : \A e \in Records(s) :
        e.voted_for # None => e.voted_for[1] <= e.current_term

\* the file of a node holds a vote of a term older than its current term
FileHoldsVoteOfOlderTerm ==
    \E s \in servers :
        /\ stores[s].disk.voted_for # None
        /\ stores[s].disk.voted_for[1] < stores[s].disk.current_term

\* C8. A node of any role that handles a RequestVote with req.term >
\* current_term adopts req.term first, as a Follower without a vote in that
\* term, and decides the vote after that: it ends the step as a Follower in
\* req.term, its Vote reply carries req.term, and the vote is decided as by a
\* node that holds no vote (granted, and recorded for the requester).
RequestVoteOfHigherTermAdoptsTermFirst ==
    \A s \in servers : \A m \in network :
        (/\ Handled(s, m)
         /\ m.mtype = "RequestVote"
         /\ m.term > last.election_after_tick.current_term)
        => /\ node[s].role = "Follower"
           /\ stores[s].election.current_term = m.term
           /\ Replies = {[mtype |-> "Vote", request_id |-> m.request_id,
                          from |-> s, to |-> m.from,
                          term |-> m.term, vote_granted |-> TRUE]}
           /\ stores[s].election.voted_for = <<m.term, m.from>>

\* a Candidate that had voted for itself handled a RequestVote of a higher term
CandidateHandledRequestVoteOfHigherTerm ==
    \E s \in servers : \E m \in network :
        /\ Handled(s, m)
        /\ m.mtype = "RequestVote"
        /\ m.term > last.election_after_tick.current_term
        /\ last.after_tick.role = "Candidate"
        /\ VoteIn(last.election_after_tick) = Some(s)

\* C9. For every role and every incoming request or reply whose term is
\* greater than the node's current term: after the step the node is a
\* Follower, its current_term is the message's term, it holds no vote for that
\* term unless it granted one while handling this message, and its election
\* timer has been reset.
HigherTermMakesFollower ==
    \A s \in servers : \A m \in network :
        (/\ Handled(s, m)
         /\ m.term > last.election_after_tick.current_term)
        => /\ node[s].role = "Follower"
           /\ stores[s].election.current_term = m.term
           /\ VoteIn(stores[s].election) # None
                 => /\ m.mtype = "RequestVote"
                    /\ VoteIn(stores[s].election) = Some(m.from)
                    /\ \E reply \in Replies :
                          reply.mtype = "Vote" /\ reply.vote_granted
           /\ node[s].last_election_timer_started = now
           /\ node[s].election_timeout \in Timeouts

\* a Leader handled a message of a higher term
LeaderHandledHigherTerm ==
    \E s \in servers : \E m \in network :
        /\ Handled(s, m)
        /\ m.term > last.election_after_tick.current_term
        /\ last.after_tick.role = "Leader"

\* C10. No message handed to the transport reveals a term advance or a granted
\* vote that was not synced successfully before: the sender of a message of
\* term T has synced a record with current_term >= T, and the sender of a
\* granted Vote has synced that vote.
MessagesRevealOnlySyncedState ==
    \A m \in network :
        /\ \E e \in stores[m.from].synced : e.current_term >= m.term
        /\ (m.mtype = "Vote" /\ m.vote_granted)
              => \E e \in stores[m.from].synced : e.voted_for = <<m.term, m.to>>

\* C11. If a storage sync fails while a node handles a Tick or an IncomingRpc,
\* the step is aborted, none of the messages produced in that loop iteration
\* is sent (and no observation is published), and the event loop terminates:
\* the thread runs no further iteration.
StorageErrorEndsTheLoop ==
    [][\A s \in servers :
          /\ (last'.server = Some(s) /\ last'.status = "storage_error")
                => /\ running[s] /\ ~running'[s]
                   /\ network' = network
                   /\ server_states' = server_states
          /\ ~running[s] => last'.server # Some(s)]_vars

\* the sync of the message step failed after the Tick step had started an
\* election: the RequestVotes of the Tick step were not sent
SyncFailedAfterTickProducedMessages ==
    \E s \in servers :
        /\ last.server = Some(s)
        /\ last.status = "storage_error"
        /\ last.message # None
        /\ enqueued(last.tick_actions) # {}
        /\ enqueued(last.tick_actions) \cap network = {}
        /\ ~running[s]

\* the last iteration handed a message to a transport that refused it
EnqueueReturnedTransportShutdown(s) ==
    /\ last.server = Some(s)
    /\ last.status = "ok"
    /\ transport[s] = "outbound_closed"
    /\ enqueued(last.tick_actions \o last.message_actions) # {}

\* C12. Whenever the transport returns TransportShutdown, from
\* wait_for_next_incoming_message, from enqueue_outgoing_request or from
\* enqueue_reply, the node's event loop exits: the thread is not running after
\* that iteration.
TransportShutdownEndsTheLoop ==
    \A s \in servers :
        \/ last.server = Some(s) /\ last.status = "transport_shutdown"
        \/ EnqueueReturnedTransportShutdown(s)
        => ~running[s]

\* the deadline of the election timer the node of the last iteration held
\* when the iteration began
DeadlineBefore == last.before.last_election_timer_started + last.before.election_timeout

\* the Tick step of the last iteration started an election
TickStartedElection(s) ==
    /\ last.after_tick.role = "Candidate"
    /\ last.after_tick.votes_received = {s}
    /\ last.after_tick.last_election_timer_started = now
    /\ last.election_after_tick.current_term = last.election_before.current_term + 1
    /\ last.tick_actions # <<>>

\* the Tick step of the last iteration changed nothing and produced nothing
TickDidNothing ==
    /\ last.after_tick = last.before
    /\ last.election_after_tick = last.election_before
    /\ last.tick_actions = <<>>

\* C13. A Follower or Candidate handling Tick(now) starts an election iff
\* now > last_election_timer_started + election_timeout: at the deadline itself
\* nothing happens (no role change, no term change, no actions), and one time
\* unit later the election starts.
ElectionStartsStrictlyAfterDeadline ==
    \A s \in servers :
        (/\ last.server = Some(s)
         /\ last.status = "ok"
         /\ last.before.role \in {"Follower", "Candidate"})
        => /\ now > DeadlineBefore <=> TickStartedElection(s)
           /\ now <= DeadlineBefore => TickDidNothing

\* a Candidate handled Tick exactly at the deadline of its timer, and nothing
\* happened
CandidateTickedAtDeadline ==
    \E s \in servers :
        /\ last.server = Some(s)
        /\ last.status = "ok"
        /\ last.before.role = "Candidate"
        /\ now = DeadlineBefore
        /\ TickDidNothing

\* C14. With an empty peer set (other_servers = {}) the step in which the
\* Follower's election timeout fires ends with the node in the Leader role.
LoneFollowerWinsOwnElectionAtOnce ==
    \A s \in servers :
        (/\ last.server = Some(s)
         /\ last.status = "ok"
         /\ other_servers(s) = {}
         /\ last.before.role = "Follower"
         /\ TickStartedElection(s))
        => node[s].role = "Leader"

\* the node of the last iteration was a Follower after its Tick step and then
\* handled the AppendEntries m, which was not stale
FollowerHandledAppendEntries(s, m) ==
    /\ Handled(s, m)
    /\ m.mtype = "AppendEntries"
    /\ last.after_tick.role = "Follower"
    /\ m.term >= last.election_after_tick.current_term

\* the node of the last iteration had, when it handled m, already accepted the
\* same AppendEntries: it followed m.from in the term of m
AlreadyAccepted(m) ==
    /\ last.after_tick.leader_id = Some(m.from)
    /\ last.election_after_tick.current_term = m.term

\* C15. A Follower that receives the same non-stale AppendEntries twice in
\* sequence emits two AppendEntriesAck with success = true, and after the
\* second delivery its role, current_term, recorded vote and leader_id
\* (= req.from) are the same as after the first: every delivery is answered by
\* exactly the successful ack and leaves a Follower of req.from in req.term,
\* and a delivery to a node already in that state changes none of the four.
RepeatedAppendEntriesIsIdempotent ==
    \A s \in servers : \A m \in network :
        FollowerHandledAppendEntries(s, m)
        => /\ Replies = {[mtype |-> "AppendEntriesAck", request_id |-> m.request_id,
                          from |-> s, to |-> m.from,
                          term |-> m.term, success |-> TRUE]}
           /\ node[s].role = "Follower"
           /\ node[s].leader_id = Some(m.from)
           /\ stores[s].election.current_term = m.term
           /\ AlreadyAccepted(m)
                 => /\ node[s].role = last.after_tick.role
                    /\ node[s].leader_id = last.after_tick.leader_id
                    /\ stores[s].election = last.election_after_tick

\* a Follower handled an AppendEntries of the leader it already followed in
\* that term, having voted in that term
FollowerHandledAppendEntriesAgain ==
    \E s \in servers : \E m \in network :
        /\ FollowerHandledAppendEntries(s, m)
        /\ AlreadyAccepted(m)
        /\ VoteIn(last.election_after_tick) # None

\* the node of the last iteration was a Candidate after its Tick step and then
\* handled the granted Vote m of its current term, cast by a voter it had
\* already counted
CandidateHandledCountedVote(s, m) ==
    /\ Handled(s, m)
    /\ m.mtype = "Vote"
    /\ m.vote_granted
    /\ m.term = last.election_after_tick.current_term
    /\ last.after_tick.role = "Candidate"
    /\ m.from \in last.after_tick.votes_received

\* C16. Re-delivering to a Candidate a granted Vote from a voter already
\* counted in votes_received does not grow votes_received and therefore cannot
\* by itself make the Candidate reach quorum: the node is still a Candidate.
CountedVoteIsNotCountedAgain ==
    \A s \in servers : \A m \in network :
        CandidateHandledCountedVote(s, m)
        => /\ node[s].votes_received = last.after_tick.votes_received
           /\ node[s].role = "Candidate"

\* a Candidate one vote short of the quorum handled the vote of a peer it had
\* already counted
CandidateShortOfQuorumHandledCountedVote ==
    \E s \in servers : \E m \in network :
        /\ CandidateHandledCountedVote(s, m)
        /\ m.from # s
        /\ Cardinality(last.after_tick.votes_received) + 1 = qorum(s)

\* the servers a server can exchange messages with, itself included
side(s) ==
    {s} \cup {t \in servers \ {s} :
                 connections[<<s, t>>] # "cut" /\ connections[<<t, s>>] # "cut"}

\* the side of s is not a majority of the cluster
InMinority(s) == 2 * Cardinality(side(s)) <= Cardinality(servers)

\* the node of the last iteration is a Candidate that has just counted the
\* granted Vote m and holds the votes of its whole side
CountedWholeSide(s, m) ==
    /\ Handled(s, m)
    /\ m.mtype = "Vote"
    /\ m.vote_granted
    /\ m.term = stores[s].election.current_term
    /\ node[s].role = "Candidate"
    /\ node[s].votes_received = side(s)

\* C17. In a 5-node cluster partitioned from time 0 into a majority side and a
\* minority side, no node of the minority side (a node that can exchange
\* messages with fewer than a quorum of servers including itself) ever becomes
\* Leader.
MinoritySideNeverLeads ==
    \A s \in servers : InMinority(s) => node[s].role # "Leader"

\* a node of the minority side {2, 4} counted the vote of the other node of its
\* side, while the cluster is split into a majority and a minority
MinorityCandidateCountedWholeSide ==
    /\ \E s \in servers : ~InMinority(s)
    /\ \E s \in servers : \E m \in network :
          /\ InMinority(s)
          /\ m.from # s
          /\ CountedWholeSide(s, m)

\* C18. If from time 0 the network is partitioned so that no partition contains
\* a majority of the cluster (5 nodes split {0,1} | {2,3} | {4}), then no node
\* ever becomes Leader, however many elections are started: no node is in the
\* Leader role and none has published a Leader observation.
NoLeaderWithoutMajoritySide ==
    (\A s \in servers : InMinority(s))
    => \A s \in servers :
          /\ node[s].role # "Leader"
          /\ \A i \in 1 .. Len(server_states[s]) :
                server_states[s][i].current_state # "Leader"

\* with no side a majority, a node counted the vote of the other node of its
\* side while the node that is alone has started an election of its own
CandidatesOnSeveralSidesWithoutMajority ==
    /\ \A s \in servers : InMinority(s)
    /\ \E s \in servers : \E m \in network :
          /\ m.from # s
          /\ CountedWholeSide(s, m)
    /\ \E s \in servers : side(s) = {s} /\ node[s].role = "Candidate"

\* C21. After sync() returns successfully and the node crashes and restarts,
\* the storage opened on restart reports the current_term and voted_for of the
\* last successfully synced record, and the restarted node starts as a
\* Follower in that term with that vote still in force.
RestartReadsLastSyncedRecord ==
    [][\A s \in servers :
          (~running[s] /\ running'[s])
          => /\ stores'[s].election = stores[s].last_synced
             /\ node'[s].role = "Follower"]_vars

\* the kind of reply that answers a request
ReplyTo(request) ==
    IF request.mtype = "RequestVote" THEN "Vote" ELSE "AppendEntriesAck"

\* the number of OutgoingRpc actions among actions
RECURSIVE NumOutgoingRpc(_)
NumOutgoingRpc(actions) ==
    IF actions = <<>> THEN 0
    ELSE (IF Head(actions).action = "OutgoingRpc" THEN 1 ELSE 0)
         + NumOutgoingRpc(Tail(actions))

LeaderNeverHandlesAppendEntriesOfItsTerm ==
    \A s \in servers : \A m \in network :
        (/\ last.server = Some(s)
         /\ last.message = Some(m)
         /\ m.mtype = "AppendEntries"
         /\ last.after_tick.role = "Leader")
        => /\ m.term # last.election_after_tick.current_term
           /\ last.status # "panic"

\* the events a running node may be given next: the Tick of the current clock
\* reading or a message on its way to it
NextEvents(s) ==
    {Tick(now)} \cup {IncomingRpc(m) : m \in {x \in network : x.to = s}}

\* C24. Deterministic replay: two runs of the simulator with the same seed and
\* the same schedule of injected events produce the same observable trace (same
\* sequence of queued and processed events with the same contents, and the
\* same sequence of node role/term changes).  Two runs that agree so far are in
\* the same state; given the same event, the same draws of the node's seeded
\* PRNG (the same new node state) and the same injected faults (the same
\* outcome and storage), the step hands the same actions, with the same
\* contents, to the transport.
ReplayIsDeterministic ==
    \A s \in servers :
        running[s] =>
            \A event \in NextEvents(s) :
                \A run1, run2 \in next(s, node[s], event, stores[s]) :
                    (/\ run1.status = run2.status
                     /\ run1.node = run2.node
                     /\ run1.storage = run2.storage)
                    => run1.actions = run2.actions

\* the node of the last iteration was a Candidate after its Tick step and then
\* handled the AppendEntries m of its own term
CandidateHandledAppendEntriesOfItsTerm(s, m) ==
    /\ Handled(s, m)
    /\ m.mtype = "AppendEntries"
    /\ last.after_tick.role = "Candidate"
    /\ m.term = last.election_after_tick.current_term

\* C25. A Candidate that handles an AppendEntries with req.term = current_term
\* transitions to Follower with leader_id = Some(req.from), resets its election
\* timer, and replies AppendEntriesAck with success = true; its current_term is
\* unchanged.
CandidateFollowsLeaderOfItsTerm ==
    \A s \in servers : \A m \in network :
        CandidateHandledAppendEntriesOfItsTerm(s, m)
        => /\ node[s].role = "Follower"
           /\ node[s].leader_id = Some(m.from)
           /\ node[s].last_election_timer_started = now
           /\ node[s].election_timeout \in Timeouts
           /\ Replies = {[mtype |-> "AppendEntriesAck", request_id |-> m.request_id,
                          from |-> s, to |-> m.from,
                          term |-> m.term, success |-> TRUE]}
           /\ stores[s].election.current_term = last.election_after_tick.current_term

\* the SetNextTimeout actions among actions, in their order
RECURSIVE SetNextTimeouts(_)
SetNextTimeouts(actions) ==
    IF actions = <<>> THEN <<>>
    ELSE (IF Head(actions).action = "SetNextTimeout" THEN <<Head(actions)>> ELSE <<>>)
         \o SetNextTimeouts(Tail(actions))

\* C26. Starting an election (Follower timeout or Candidate timeout) increments
\* current_term by exactly one, records and syncs a vote for the node itself in
\* the new term, sets votes_received to exactly {self}, resets the election
\* timer, and emits one SetNextTimeout plus exactly one RequestVote carrying
\* the new term to every server in other_servers and to no one else.
ElectionStartIsComplete ==
    \A s \in servers :
        (/\ last.server = Some(s)
         /\ last.status = "ok"
         /\ last.before.role \in {"Follower", "Candidate"}
         /\ now > DeadlineBefore)
        => LET new_term == last.election_before.current_term + 1
               requests == enqueued(last.tick_actions)
           IN /\ last.election_after_tick =
                     [current_term |-> new_term, voted_for |-> <<new_term, s>>]
              /\ last.election_after_tick \in stores[s].synced
              /\ last.after_tick.role = "Candidate"
              /\ last.after_tick.votes_received = {s}
              /\ last.after_tick.last_election_timer_started = now
              /\ last.after_tick.election_timeout \in Timeouts
              /\ SetNextTimeouts(last.tick_actions) =
                     <<SetNextTimeout(last.after_tick.election_timeout)>>
              /\ NumOutgoingRpc(last.tick_actions) = Cardinality(other_servers(s))
              /\ {m.to : m \in requests} = other_servers(s)
              /\ \A m \in requests :
                    /\ m.mtype = "RequestVote"
                    /\ m.from = s
                    /\ m.term = new_term

\* a Candidate whose election timed out started the election of the next term
CandidateStartedNextElection ==
    \E s \in servers :
        /\ last.server = Some(s)
        /\ last.status = "ok"
        /\ last.before.role = "Candidate"
        /\ now > DeadlineBefore
        /\ last.election_before.current_term > 0
        /\ enqueued(last.tick_actions) # {}

\* the node of the last iteration was a Candidate after its Tick step and then
\* handled the RequestVote m, of a term not above its own
CandidateHandledRequestVote(s, m) ==
    /\ Handled(s, m)
    /\ m.mtype = "RequestVote"
    /\ last.after_tick.role = "Candidate"
    /\ m.term <= last.election_after_tick.current_term

\* C27. A Candidate that handles a RequestVote with req.term <= current_term
\* replies vote_granted = false and remains Candidate with unchanged
\* current_term, recorded vote (for itself), votes_received and election timer.
CandidateRefusesVoteAndKeepsState ==
    \A s \in servers : \A m \in network :
        CandidateHandledRequestVote(s, m)
        => /\ Replies = {[mtype |-> "Vote", request_id |-> m.request_id,
                          from |-> s, to |-> m.from,
                          term |-> last.election_after_tick.current_term,
                          vote_granted |-> FALSE]}
           /\ node[s] = last.after_tick
           /\ node[s].role = "Candidate"
           /\ stores[s].election = last.election_after_tick
           /\ VoteIn(stores[s].election) = Some(s)

\* a Candidate refused the RequestVote of another candidate of its own term
CandidateRefusedRivalOfItsTerm ==
    \E s \in servers : \E m \in network :
        /\ CandidateHandledRequestVote(s, m)
        /\ m.term = last.election_after_tick.current_term
        /\ \E reply \in Replies : ~reply.vote_granted

\* the node of the last iteration was a Follower after its Tick step and then
\* handled the AppendEntries m of a term below its own
FollowerHandledStaleAppendEntries(s, m) ==
    /\ Handled(s, m)
    /\ m.mtype = "AppendEntries"
    /\ last.after_tick.role = "Follower"
    /\ m.term < last.election_after_tick.current_term

\* C28. A Follower that handles an AppendEntries with req.term < current_term
\* replies success = false and leaves its election timer
\* (last_election_timer_started, election_timeout), its leader_id, its
\* current_term and its recorded vote unchanged, and emits no SetNextTimeout;
\* so heartbeats of a deposed leader never postpone an election.
StaleAppendEntriesChangesNothing ==
    \A s \in servers : \A m \in network :
        FollowerHandledStaleAppendEntries(s, m)
        => /\ Replies = {[mtype |-> "AppendEntriesAck", request_id |-> m.request_id,
                          from |-> s, to |-> m.from,
                          term |-> last.election_after_tick.current_term,
                          success |-> FALSE]}
           /\ node[s] = last.after_tick
           /\ stores[s].election = last.election_after_tick
           /\ SetNextTimeouts(last.message_actions) = <<>>

\* a Follower refused the AppendEntries of a leader of an earlier term
FollowerRefusedDeposedLeader ==
    \E s \in servers : \E m \in network :
        /\ FollowerHandledStaleAppendEntries(s, m)
        /\ m.term > 0
        /\ \E reply \in Replies : ~reply.success

\* actions are one round of heartbeats of s: exactly one empty AppendEntries
\* of the given term to every other server, followed by
\* SetNextTimeout(leader_heartbeat_interval)
IsHeartbeatRound(s, term, actions) ==
    /\ Len(actions) = Cardinality(other_servers(s)) + 1
    /\ actions[Len(actions)] = SetNextTimeout(config.leader_heartbeat_interval)
    /\ NumOutgoingRpc(actions) = Cardinality(other_servers(s))
    /\ {m.to : m \in enqueued(actions)} = other_servers(s)
    /\ \A m \in enqueued(actions) :
          /\ m.mtype = "AppendEntries"
          /\ m.from = s
          /\ m.term = term
          /\ m.entries = <<>>

\* C29. The step in which a Candidate becomes Leader emits exactly one empty
\* AppendEntries carrying the Leader's current term to every server in
\* other_servers, followed by SetNextTimeout(leader_heartbeat_interval);
\* afterwards a Leader handling Tick(now) emits a new round of heartbeats iff
\* now > last_heartbeat_sent + leader_heartbeat_interval.
LeaderHeartbeats ==
    \A s \in servers :
        (last.server = Some(s) /\ last.status = "ok")
        => /\ (last.after_tick.role = "Candidate" /\ node[s].role = "Leader")
                 => /\ IsHeartbeatRound(s, stores[s].election.current_term,
                                        last.message_actions)
                    /\ node[s].last_heartbeat_sent = now
           /\ last.before.role = "Leader"
                 => IF now > last.before.last_heartbeat_sent
                               + config.leader_heartbeat_interval
                    THEN /\ IsHeartbeatRound(s, last.election_after_tick.current_term,
                                             last.tick_actions)
                         /\ last.after_tick =
                                [last.before EXCEPT !.last_heartbeat_sent = now]
                    ELSE /\ last.tick_actions = <<>>
                         /\ last.after_tick = last.before

\* a Leader handled Tick when its heartbeat interval had passed and sent a new
\* round of heartbeats
LeaderSentNextHeartbeats ==
    \E s \in servers :
        /\ last.server = Some(s)
        /\ last.status = "ok"
        /\ last.before.role = "Leader"
        /\ now > last.before.last_heartbeat_sent + config.leader_heartbeat_interval
        /\ enqueued(last.tick_actions) # {}

\* the election timer of the node of the last iteration had expired when the
\* iteration's wait returned the message m, and the iteration handled m
TimerExpiredBeforeHandling(s, m) ==
    /\ Handled(s, m)
    /\ last.before.role \in {"Follower", "Candidate"}
    /\ now > DeadlineBefore

\* C30. In every iteration the Tick event is processed before the IncomingRpc
\* event of the message returned by the same wait: a node whose election timer
\* has expired first starts the election of term + 1 and then handles the
\* message as the Candidate of that term, so it ends in the higher of that
\* term and the message's, it refuses a RequestVote of a term up to its new
\* one, and it stays Candidate unless the message makes it step down.
TickIsProcessedBeforeIncomingRpc ==
    \A s \in servers : \A m \in network :
        TimerExpiredBeforeHandling(s, m)
        => LET new_term == last.election_before.current_term + 1
           IN /\ TickStartedElection(s)
              /\ stores[s].election.current_term
                     = (IF m.term > new_term THEN m.term ELSE new_term)
              /\ \A reply \in Replies :
                     reply.term = stores[s].election.current_term
              /\ (m.mtype = "RequestVote" /\ m.term <= new_term)
                     => /\ \A reply \in Replies : ~reply.vote_granted
                        /\ node[s] = last.after_tick
              /\ m.term < new_term => node[s].role = "Candidate"

\* a Follower whose election timer had expired received the RequestVote of
\* the term it was about to enter, and refused it as a Candidate of that term
FollowerTimedOutThenRefusedRequestVote ==
    \E s \in servers : \E m \in network :
        /\ TimerExpiredBeforeHandling(s, m)
        /\ last.before.role = "Follower"
        /\ m.mtype = "RequestVote"
        /\ m.term = last.election_before.current_term + 1
        /\ node[s].role = "Candidate"
        /\ \E reply \in Replies : ~reply.vote_granted

\* the wait the drain of the emitted actions arms: the duration of the last
\* SetNextTimeout, or what is left of the previous wait
ArmedWait(actions, interval, elapsed) ==
    LET timeouts == SetNextTimeouts(actions)
    IN IF timeouts # <<>>
       THEN timeouts[Len(timeouts)].duration
       ELSE remaining_interval(interval, elapsed)

\* C31. At the end of an iteration the wait armed for the next one is the
\* duration of the last SetNextTimeout among the Tick actions followed by the
\* message actions; without a SetNextTimeout it is the previous wait minus
\* the time spent waiting, clamped at zero.
LastSetNextTimeoutWins ==
    [][\A s \in servers :
          (last'.server = Some(s) /\ last'.status = "ok")
          => interval_until_next_timer_expires'[s] =
                 ArmedWait(last'.tick_actions \o last'.message_actions,
                           interval_until_next_timer_expires[s],
                           now - time_before_waiting[s])]_vars

\* the node of the last iteration handled the reply m in the role it had
\* after its Tick step
HandledReply(s, m) ==
    /\ Handled(s, m)
    /\ m.mtype \in {"Vote", "AppendEntriesAck"}

\* the reply m is one the claim calls late or irrelevant for a Candidate
IrrelevantToCandidate(m) ==
    \/ m.mtype = "AppendEntriesAck"
    \/ ~m.vote_granted
    \/ m.term # last.election_after_tick.current_term

\* handling the message of the last iteration produced no actions and left
\* the node and its persistent record as the Tick step had left them
MessageWasIgnored(s) ==
    /\ last.message_actions = <<>>
    /\ node[s] = last.after_tick
    /\ stores[s].election = last.election_after_tick

\* C32 as stated. A Follower handling a Vote or AppendEntriesAck with
\* term <= current_term, and a Candidate handling an AppendEntriesAck or a
\* Vote that is not granted or whose term differs from current_term, emit no
\* actions and leave role, term, vote, votes_received, leader_id and election
\* timer unchanged.
LateRepliesAreIgnored ==
    \A s \in servers : \A m \in network :
        (/\ HandledReply(s, m)
         /\ \/ /\ last.after_tick.role = "Follower"
               /\ m.term <= last.election_after_tick.current_term
            \/ /\ last.after_tick.role = "Candidate"
               /\ IrrelevantToCandidate(m))
        => MessageWasIgnored(s)

\* C32, amended. The same, for replies of a term not above the node's: a
\* Follower handling a Vote or AppendEntriesAck with term <= current_term,
\* and a Candidate handling, with term <= current_term, an AppendEntriesAck
\* or a Vote that is not granted or of a term below current_term, emit no
\* actions and leave role, term, vote, votes_received, leader_id and election
\* timer unchanged.
RepliesOfNoHigherTermAreIgnored ==
    \A s \in servers : \A m \in network :
        (/\ HandledReply(s, m)
         /\ m.term <= last.election_after_tick.current_term
         /\ \/ last.after_tick.role = "Follower"
            \/ /\ last.after_tick.role = "Candidate"
               /\ IrrelevantToCandidate(m))
        => MessageWasIgnored(s)

\* a Candidate that had gone on to the next election handled a vote granted
\* to it in the election before
CandidateIgnoredVoteOfEarlierElection ==
    \E s \in servers : \E m \in network :
        /\ HandledReply(s, m)
        /\ last.after_tick.role = "Candidate"
        /\ m.mtype = "Vote"
        /\ m.vote_granted
        /\ m.term < last.election_after_tick.current_term

\* ------------------------------------------------------------------------
\* The persistent storage on its own: the calls the state machine makes
\* ------------------------------------------------------------------------
\* update_term as its callers use it: with the higher term of a message, or
\* with current_term + 1 when an election starts
StorageUpdateTerm(server_id) ==
    /\ \E term \in (current_term(stores[server_id]) + 1) .. MaxStoredTerm :
          stores' = [stores EXCEPT ![server_id] = update_term(@, term)]
    /\ UNCHANGED <<now, node, running, interval_until_next_timer_expires,
                   time_before_waiting, network, server_states, io_faults,
                   servers, config, connections, os_entropy, sim, iterations,
                   transport, last>>

\* record_vote for any server of the cluster
StorageRecordVote(server_id) ==
    /\ \E voted_for \in servers :
          stores' = [stores EXCEPT ![server_id] = record_vote(@, voted_for)]
    /\ UNCHANGED <<now, node, running, interval_until_next_timer_expires,
                   time_before_waiting, network, server_states, io_faults,
                   servers, config, connections, os_entropy, sim, iterations,
                   transport, last>>

NextStorage ==
    \/ \E s \in servers : StorageUpdateTerm(s)
    \/ \E s \in servers : StorageRecordVote(s)

SpecStorage == Init /\ [][NextStorage]_vars

\* C33. The vote is scoped by term: voted_for_in_current_term is Some(s) only
\* when the stored vote is for s and its term equals current_term; update_term
\* to a different term leaves the stored vote untouched and
\* voted_for_in_current_term is None afterwards; record_vote stores the vote
\* with the current_term in force at the call.
VoteIsScopedByTerm ==
    [][\A s \in servers :
          LET before == stores[s]
              after == stores'[s]
          IN /\ voted_for_in_current_term(after) # None
                   => /\ after.election.voted_for # None
                      /\ after.election.voted_for[1] = current_term(after)
                      /\ voted_for_in_current_term(after)
                             = Some(after.election.voted_for[2])
             /\ current_term(after) # current_term(before)
                   => /\ after.election.voted_for = before.election.voted_for
                      /\ voted_for_in_current_term(after) = None
             /\ after.election.voted_for # before.election.voted_for
                   => /\ current_term(after) = current_term(before)
                      /\ after.election.voted_for[1] = current_term(before)
                      /\ voted_for_in_current_term(after) # None]_vars

\* a storage holds a vote of an earlier term and reports no vote in the
\* current term
VoteOfEarlierTermIsNotReported ==
    \E s \in servers :
        /\ stores[s].election.voted_for # None
        /\ stores[s].election.voted_for[1] < current_term(stores[s])
        /\ voted_for_in_current_term(stores[s]) = None

\* ------------------------------------------------------------------------
\* The simulator: ClusterSim and SimNetwork
\* ------------------------------------------------------------------------
Latencies == 0 .. MaxLatency

\* the partitionings a test may apply: two disjoint sides covering the cluster
SimPartitionings ==
    {{one_side, servers \ one_side} : one_side \in (SUBSET servers) \ {{}, servers}}

Min(times) == CHOOSE time \in times : \A other \in times : time <= other

\* SimNetwork::heal_network_partition: the baseline packet loss on every link
heal_network_partition(links) == [c \in DOMAIN links |-> "lossy"]

\* a packet loss that spares the messages of every link
drop_outcomes_of_baseline(packet_loss) == {TRUE, FALSE}

\* connection.packet_loss.sample(rng): Bernoulli(1.0) always drops, a smaller
\* probability drops or not
drop_outcomes(packet_loss) ==
    IF packet_loss = "cut" THEN {TRUE} ELSE {TRUE, FALSE}

\* a wake-up request taken as it was sent
as_requested(wake_up_by) == wake_up_by

\* run_step: a wake-up request earlier than the clock is stored as SimTime::now()
coalesced(wake_up_by) == IF wake_up_by >= now THEN wake_up_by ELSE now

panicked(simulator, message) == [simulator EXCEPT !.panic = Some(message)]

\* ClusterSim::enqueue_event, with its assertion
enqueue_event(simulator, msg) ==
    IF simulator.panic # None THEN simulator
    ELSE IF msg.time >= now
    THEN [simulator EXCEPT !.events_to_process = @ \cup {msg}]
    ELSE panicked(simulator, "Cannot enqueue an event in the past")

RECURSIVE enqueue_events(_, _)
enqueue_events(simulator, events) ==
    IF events = {} THEN simulator
    ELSE LET msg == CHOOSE event \in events : TRUE
         IN enqueue_events(enqueue_event(simulator, msg), events \ {msg})

\* SimNetwork::get_all_queued_outbound_messages: every message of the channel
\* is sampled; a message that is not dropped becomes a SendOverNetwork event at
\* the clock reading plus the sampled latency
get_all_queued_outbound_messages(simulator) ==
    LET channel == simulator.outbound_message_rx
        may_pass == {m \in channel : FALSE \in drop_outcomes(connections[<<m.from, m.to>>])}
        may_drop == {m \in channel : TRUE \in drop_outcomes(connections[<<m.from, m.to>>])}
    IN { [dropped |-> channel \ kept,
          events |-> {[time |-> now + latency[m], action |-> "SendOverNetwork",
                       message |-> m] : m \in kept}]
         : kept \in {k \in SUBSET may_pass : (channel \ k) \subseteq may_drop},
           latency \in [channel -> Latencies] }

\* a node thread hands a message to its transport (enqueue_outgoing_request,
\* enqueue_reply): it goes to the channel the network reads
EnqueueOutgoing(from, to) ==
    /\ sim.panic = None
    /\ sim.sent < MaxSimMessages
    /\ from # to
    /\ sim' = [sim EXCEPT !.sent = @ + 1,
                          !.outbound_message_rx =
                              @ \cup {[id |-> sim.sent, from |-> from, to |-> to]}]
    /\ UNCHANGED <<now, node, running, interval_until_next_timer_expires,
                   time_before_waiting, stores, network, server_states, io_faults,
                   servers, config, connections, os_entropy, iterations,
                   transport, last>>

\* a node thread that starts to wait sends WakeUpAtOrBefore(its deadline); the
\* simulator reads it at some later step
RequestWakeUp(wake_up_by) ==
    /\ sim.panic = None
    /\ Cardinality(sim.transport_wake_up_rx \cup sim.transport_wakeup_requests)
          < MaxWakeUps
    /\ wake_up_by \notin sim.transport_wake_up_rx
    /\ sim' = [sim EXCEPT !.transport_wake_up_rx = @ \cup {wake_up_by}]
    /\ UNCHANGED <<now, node, running, interval_until_next_timer_expires,
                   time_before_waiting, stores, network, server_states, io_faults,
                   servers, config, connections, os_entropy, iterations,
                   transport, last>>

\* a test schedules a partition or its healing, at the clock reading or later
EnqueueEvent(msg) ==
    /\ sim.panic = None
    /\ msg \notin sim.events_to_process
    /\ sim.injected < MaxSimEvents
    /\ sim' = enqueue_event([sim EXCEPT !.injected = @ + 1], msg)
    /\ UNCHANGED <<now, node, running, interval_until_next_timer_expires,
                   time_before_waiting, stores, network, server_states, io_faults,
                   servers, config, connections, os_entropy, iterations,
                   transport, last>>

TestEvents ==
    {[time |-> time, action |-> "PartitionNetwork", partitions |-> partitions]
        : time \in now .. MaxSimTime, partitions \in SimPartitionings}
    \cup {[time |-> time, action |-> "HealNetworkPartition"]
            : time \in now .. MaxSimTime}

\* the message crosses the boundary of the partitioning in force
Crosses(partitions, m) ==
    \E partition \in partitions : m.from \in partition /\ m.to \notin partition

\* the effect of the event popped by run_step
PerformAction(simulator, event) ==
    CASE event.action = "SendOverNetwork" ->
            /\ sim' = [simulator EXCEPT !.delivered = @ \cup {event.message}]
            /\ UNCHANGED connections
      [] event.action = "PartitionNetwork" ->
            /\ sim' = [simulator EXCEPT !.partitions = event.partitions]
            /\ connections' = partition_network(connections, event.partitions)
      [] event.action = "HealNetworkPartition" ->
            /\ sim' = [simulator EXCEPT !.partitions = {},
                                        !.healed_at = simulator.sent]
            /\ connections' = heal_network_partition(connections)

\* ClusterSim::run_step, called by run_until_time while the clock has not
\* passed the end of the run
run_step ==
    /\ sim.panic = None
    /\ now <= MaxSimTime
    /\ \E outbound \in get_all_queued_outbound_messages(sim) :
          LET polled == enqueue_events(
                            [sim EXCEPT !.outbound_message_rx = {},
                                        !.dropped = @ \cup outbound.dropped,
                                        !.cut_off = @ \cup
                                            {m \in outbound.dropped :
                                                Crosses(sim.partitions, m)}],
                            outbound.events)
              requests == polled.transport_wakeup_requests
                             \cup {coalesced(wake_up_by)
                                      : wake_up_by \in polled.transport_wake_up_rx}
              collected == [polled EXCEPT !.transport_wake_up_rx = {},
                                          !.late = @ \/ \E wake_up_by \in
                                                     polled.transport_wake_up_rx :
                                                        wake_up_by < now,
                                          !.transport_wakeup_requests = requests]
              events == polled.events_to_process
              wake_ups == {wake_up \in requests :
                              events = {}
                              \/ wake_up <= Min({e.time : e \in events})}
          IN IF polled.panic # None
             THEN sim' = polled /\ UNCHANGED <<now, connections>>
             ELSE IF wake_ups # {}
             THEN LET wakeup_time == Min(wake_ups)
                  IN IF wakeup_time < now
                     THEN /\ sim' = panicked(collected, "Time should not go backwards")
                          /\ UNCHANGED <<now, connections>>
                     ELSE /\ now' = wakeup_time
                          /\ sim' = [collected EXCEPT
                                        !.transport_wakeup_requests = @ \ {wakeup_time}]
                          /\ UNCHANGED connections
             ELSE IF events # {}
             THEN \E next_event \in
                      {e \in events : e.time = Min({o.time : o \in events})} :
                     /\ now' = (IF next_event.time >= now THEN next_event.time ELSE now)
                     /\ PerformAction([collected EXCEPT
                                          !.events_to_process = @ \ {next_event}],
                                      next_event)
             ELSE sim' = collected /\ UNCHANGED <<now, connections>>
    /\ UNCHANGED <<node, running, interval_until_next_timer_expires,
                   time_before_waiting, stores, network, server_states, io_faults,
                   servers, config, os_entropy, iterations, transport, last>>

\* the simulator of a cluster just built; the node threads are not looked at
InitSim ==
    /\ InitCluster(NumServers,
                   RaftConfig(HeartbeatInterval, MinElectionTimeout, MaxElectionTimeout),
                   0)
    /\ \A s \in servers : interval_until_next_timer_expires[s] = MinElectionTimeout

NextSim ==
    \/ \E from \in servers : \E to \in servers : EnqueueOutgoing(from, to)
    \/ \E wake_up_by \in 0 .. (MaxSimTime + 1) : RequestWakeUp(wake_up_by)
    \/ \E msg \in TestEvents : EnqueueEvent(msg)
    \/ run_step

SpecSim == InitSim /\ [][NextSim]_vars

\* C34. While a partition is in force, every message the network takes from
\* the nodes whose sender and receiver are in different partitions is dropped:
\* it is never scheduled and never delivered; and when HealNetworkPartition is
\* processed every link lets messages through again.
PartitionDropsAndHealRestores ==
    [][/\ \A m \in sim.outbound_message_rx \ sim'.outbound_message_rx :
             Crosses(sim.partitions, m) => m \in sim'.dropped
       /\ \A m \in sim'.dropped :
             /\ m \notin sim'.delivered
             /\ \A e \in sim'.events_to_process :
                   e.action = "SendOverNetwork" => e.message # m
       /\ (\E e \in sim.events_to_process \ sim'.events_to_process :
              e.action = "HealNetworkPartition")
             => \A c \in DOMAIN connections' :
                   FALSE \in drop_outcomes(connections'[c])]_vars

\* a message sent across the partition in force was dropped, and after the
\* healing a later message between the same servers was delivered
DroppedAcrossPartitionDeliveredAfterHeal ==
    \E m \in sim.cut_off : \E d \in sim.delivered :
        /\ sim.partitions = {}
        /\ d.id >= sim.healed_at
        /\ d.from = m.from
        /\ d.to = m.to

\* C35. The clock of the simulator never moves backwards, every stored wake-up
\* time and every queued event time is at or after the clock, and neither
\* 'Time should not go backwards' nor 'Cannot enqueue an event in the past'
\* fails.
SimulatorTimeNeverGoesBack ==
    [][/\ now' >= now
       /\ sim'.panic = None
       /\ \A wake_up \in sim'.transport_wakeup_requests : wake_up >= now'
       /\ \A e \in sim'.events_to_process : e.time >= now']_vars

\* a wake-up requested for a time that had passed when the simulator read it
\* was stored, and every stored wake-up has been served
LateWakeUpRequestWasServedAtTheClock ==
    /\ sim.late
    /\ sim.panic = None
    /\ sim.transport_wakeup_requests = {}

\* the role changes the From impls of state_defs allow
RoleEdges ==
    {<<"Follower", "Candidate">>, <<"Candidate", "Leader">>,
     <<"Candidate", "Follower">>, <<"Leader", "Follower">>}

IsRoleEdge(from_role, to_role) ==
    from_role = to_role \/ <<from_role, to_role>> \in RoleEdges

\* C36. Every node starts as Follower, also when its thread is started again,
\* and changes role only from Follower to Candidate, from Candidate to Leader
\* or Follower and from Leader to Follower: in each of the two steps of an
\* iteration and over the whole iteration, never from Follower to Leader nor
\* from Leader to Candidate.
RoleChangesOnlyAlongRaftEdges ==
    /\ \A s \in servers : node[s].role = "Follower"
    /\ [][\A s \in servers :
             /\ IsRoleEdge(node[s].role, node'[s].role)
             /\ (last'.server = Some(s) /\ last' # last)
                   => /\ IsRoleEdge(last'.before.role, last'.after_tick.role)
                      /\ IsRoleEdge(last'.after_tick.role, node'[s].role)
             /\ (~running[s] /\ running'[s]) => node'[s].role = "Follower"]_vars

\* a Leader met a higher term and went back to Follower
LeaderBecameFollower ==
    \E s \in servers :
        /\ last.server = Some(s)
        /\ last.status = "ok"
        /\ last.before.role = "Leader"
        /\ node[s].role = "Follower"

\* the node of the last iteration ended it as Follower or Candidate and reset
\* its election timer in it: it started an election, met a higher term, or
\* accepted an AppendEntries
ResetElectionTimer(s) ==
    /\ last.server = Some(s)
    /\ last.status = "ok"
    /\ node[s].role \in {"Follower", "Candidate"}
    /\ \/ TickStartedElection(s)
       \/ /\ last.message # None
          /\ LET m == last.message[1]
             IN \/ m.term > last.election_after_tick.current_term
                \/ /\ m.mtype = "AppendEntries"
                   /\ m.term = last.election_after_tick.current_term
                   /\ last.after_tick.role \in {"Follower", "Candidate"}

\* C37. At the end of an iteration in which a Follower or Candidate reset its
\* election timer, the wait armed for the next iteration equals the
\* election_timeout the node holds, so that it wakes no later than its
\* election deadline.
ArmedWaitIsElectionTimeout ==
    \A s \in servers :
        ResetElectionTimer(s)
        => /\ node[s].last_election_timer_started = now
           /\ interval_until_next_timer_expires[s] = node[s].election_timeout

\* server l sent an AppendEntries of the term, which only a Leader of that
\* term does
WasLeaderIn(l, term) ==
    \E m \in network :
        m.mtype = "AppendEntries" /\ m.from = l /\ m.term = term

\* C38. When a running Follower of term T has leader_id = Some(l), l is
\* another server and was Leader in term T before (it sent an AppendEntries of
\* term T): never a server that was only a Candidate in T, nor a Leader of
\* another term only.
FollowerKnowsLeaderOfItsTerm ==
    \A s \in servers :
        (running[s] /\ node[s].role = "Follower" /\ node[s].leader_id # None)
        => /\ node[s].leader_id[1] # s
           /\ WasLeaderIn(node[s].leader_id[1], current_term(stores[s]))

\* a Follower has accepted the Leader of its term
FollowerHasLeader ==
    \E s \in servers :
        /\ running[s]
        /\ node[s].role = "Follower"
        /\ node[s].leader_id # None
        /\ current_term(stores[s]) > 0

\* C39. A running node in the Candidate or Leader role has, in its persistent
\* record (in memory and as last synced to the election file), a vote for
\* itself in its current term, and the votes_received of a
\* Candidate contain its own id; the same holds of the role the node had
\* between the Tick and the message of its last iteration.
CandidatesAndLeadersVotedForThemselves ==
    \A s \in servers :
        /\ (running[s] /\ node[s].role \in {"Candidate", "Leader"})
              => /\ voted_for_in_current_term(stores[s]) = Some(s)
                 /\ stores[s].last_synced = stores[s].election
                 /\ node[s].role = "Candidate" => s \in node[s].votes_received
        /\ (last.server = Some(s) /\ last.status = "ok"
            /\ last.after_tick.role \in {"Candidate", "Leader"})
              => /\ VoteIn(last.election_after_tick) = Some(s)
                 /\ last.after_tick.role = "Candidate"
                       => s \in last.after_tick.votes_received

\* a Leader is running; it holds its own vote of the term it leads
LeaderHoldsItsOwnVote ==
    \E s \in servers :
        /\ running[s]
        /\ node[s].role = "Leader"
        /\ voted_for_in_current_term(stores[s]) = Some(s)

\* C40. In the iteration whose wait returns TransportShutdown the node exits
\* with the role it had and with its persistent current_term and vote
\* unchanged, in memory and in the election file: no election is started once
\* the transport has been seen shut down.
TransportShutdownStartsNoElection ==
    \A s \in servers :
        (last.server = Some(s) /\ last.status = "transport_shutdown")
        => /\ last.after_tick.role = last.before.role
           /\ last.election_after_tick = last.election_before
           /\ stores[s].disk = last.election_before
           /\ last.tick_actions = <<>>

====
